---- MODULE Spec2Model ----
(***************************************************************************)
(* Model of actix-service/src/map.rs: the `map` combinator.                *)
(*   Map               wraps a Service, maps the Ok value of its calls     *)
(*   MapFuture         the future returned by Map::call                    *)
(*   MapServiceFactory wraps a ServiceFactory                              *)
(*   MapServiceFuture  the future returned by new_service                  *)
(* The wrapped service, factory and their futures are external: each poll  *)
(* of them draws its outcome nondeterministically.                         *)
(***************************************************************************)
EXTENDS Integers, Sequences, FiniteSets, TLC

VARIABLES maps, futs, facs, sfuts, last

vars == <<maps, futs, facs, sfuts, last>>

----------------------------------------------------------------------------
\* Bounds of the model

MaxPolls == 2
MaxReadyPolls == 1

MapIds == {1, 2}
FutIds == {1, 2}
FacIds == {1, 2}
SFutIds == {1, 2}
Vals == {0, 1}
Errs == {1, 2}
Reqs == {"r1", "r2"}
Cfgs == {"c1", "c2"}
SvcIds == {1, 2}
Ctxs == {"cx1", "cx2"}

----------------------------------------------------------------------------
\* Poll results

Unit == 0
Pending == [t |-> "Pending"]
Ok(v) == [t |-> "Ok", v |-> v]
Err(e) == [t |-> "Err", e |-> e]
Panic == [t |-> "Panic"]
None == [t |-> "None"]
Some(x) == [t |-> "Some", x |-> x]

IsReady(r) == r.t \in {"Ok", "Err"}

----------------------------------------------------------------------------
\* The transformation function F: FnMut(A::Response) -> Res + Clone.
\* kind selects the closure body, n is the number of times this copy has
\* been invoked (the captured mutable state of an FnMut closure).

FnKinds == {"const", "succ", "counting"}

FnConstResult == 42

FnApply(f, v) ==
    CASE f.kind = "const" -> FnConstResult
      [] f.kind = "succ" -> v + 1
      [] f.kind = "counting" -> v + 10 * (f.n + 1)

FnAfter(f) == [f EXCEPT !.n = @ + 1]

FnClone(f) == f

----------------------------------------------------------------------------
\* The wrapped service A: Service<Req> and its future A::Future (external)

NewSvc(id) == [id |-> id, ready |-> 0, calls |-> 0]

SvcClone(s) == s

SvcPollReady(s) == [s EXCEPT !.ready = @ + 1]

ReadyOutcomes == {Pending, Ok(Unit)} \cup {Err(e) : e \in Errs}

InnerNew(req) ==
    [req |-> req, polls |-> 0, readys |-> 0, oks |-> 0, released |-> 0, waker |-> None]

SvcCall(s, req) == [svc |-> [s EXCEPT !.calls = @ + 1], fut |-> InnerNew(req)]

\* Outcomes of polling a wrapped future: before it has returned Ready it is
\* pending or resolves; polled again after Ready its behaviour is
\* unspecified by the Future contract (panic, Pending or another Ready).
InnerOutcomes(fut, values) ==
    {Pending} \cup {Ok(v) : v \in values} \cup {Err(e) : e \in Errs}
      \cup (IF fut.readys > 0 THEN {Panic} ELSE {})

\* A poll with the context cx: a pending future keeps the waker of cx to
\* wake its task, a ready one lets go of the waker it held
InnerPoll(fut, cx, r) ==
    [fut EXCEPT !.polls = @ + 1,
                !.readys = IF IsReady(r) THEN @ + 1 ELSE @,
                !.oks = IF r.t = "Ok" THEN @ + 1 ELSE @,
                !.waker = IF r.t = "Pending" THEN Some(cx)
                          ELSE IF IsReady(r) THEN None ELSE @]

InnerDrop(fut) == [fut EXCEPT !.released = @ + 1]

----------------------------------------------------------------------------
\* Map

MapNew(service, f) == [service |-> service, f |-> f]

\* A clone that rebuilds the function instead of copying its state
MapCloneFreshFn(self) ==
    [service |-> SvcClone(self.service), f |-> [self.f EXCEPT !.n = 0]]

MapClone(self) == [service |-> SvcClone(self.service), f |-> FnClone(self.f)]

\* A poll_ready that reports ready without asking the wrapped service
MapPollReadyAlwaysReady(self, r) ==
    [self |-> self, out |-> Ok(Unit), ev |-> <<"return">>]

\* fn poll_ready(&mut self, ctx): r is what self.service.poll_ready(ctx) returns
MapPollReady(self, r) ==
    [self |-> [self EXCEPT !.service = SvcPollReady(@)],
     out |-> r,
     ev |-> <<"service.poll_ready", "return">>]

MapFutureNew(fut, f) == [f |-> f, fut |-> fut]

\* A call that issues the wrapped call again (a retry) before it returns
MapCallTwice(self, req) ==
    LET c1 == SvcCall(self.service, req)
        c == SvcCall(c1.svc, req)
    IN [self |-> [self EXCEPT !.service = c.svc],
        out |-> MapFutureNew(c.fut, FnClone(self.f)),
        ev |-> <<"service.call", "service.call", "f.clone", "return">>]

\* A call that hands the Map's own function on and keeps the used one
MapCallOwnFn(self, req) ==
    LET c == SvcCall(self.service, req)
    IN [self |-> [self EXCEPT !.service = c.svc, !.f = FnAfter(@)],
        out |-> MapFutureNew(c.fut, self.f),
        ev |-> <<"service.call", "f", "return">>]

\* fn call(&mut self, req)
MapCall(self, req) ==
    LET c == SvcCall(self.service, req)
    IN [self |-> [self EXCEPT !.service = c.svc],
        out |-> MapFutureNew(c.fut, FnClone(self.f)),
        ev |-> <<"service.call", "f.clone", "return">>]

\* A poll that hands the wrapped value on without applying f
MapFuturePollUnmapped(this, cx, r) ==
    LET fut2 == InnerPoll(this.fut, cx, r)
    IN [this |-> [f |-> this.f, fut |-> fut2],
        out |-> r,
        ev |-> <<"fut.poll", IF r.t = "Panic" THEN "unwind" ELSE "return">>]

\* A poll that invokes f on the error path as well
MapFuturePollFOnErr(this, cx, r) ==
    LET fut2 == InnerPoll(this.fut, cx, r)
    IN CASE r.t = "Ok" ->
              [this |-> [f |-> FnAfter(this.f), fut |-> fut2],
               out |-> Ok(FnApply(this.f, r.v)),
               ev |-> <<"fut.poll", "f", "return">>]
         [] r.t = "Err" ->
              [this |-> [f |-> FnAfter(this.f), fut |-> fut2],
               out |-> Err(r.e),
               ev |-> <<"fut.poll", "f", "return">>]
         [] OTHER ->
              [this |-> [f |-> this.f, fut |-> fut2],
               out |-> r,
               ev |-> <<"fut.poll", IF r.t = "Panic" THEN "unwind" ELSE "return">>]

\* A poll that invokes f before it polls the wrapped future
MapFuturePollEager(this, cx, r) ==
    LET fut2 == InnerPoll(this.fut, cx, r)
    IN CASE r.t = "Ok" ->
              [this |-> [f |-> FnAfter(this.f), fut |-> fut2],
               out |-> Ok(FnApply(this.f, r.v)),
               ev |-> <<"f", "fut.poll", "return">>]
         [] OTHER ->
              [this |-> [f |-> FnAfter(this.f), fut |-> fut2],
               out |-> r,
               ev |-> <<"f", "fut.poll", IF r.t = "Panic" THEN "unwind" ELSE "return">>]

\* A poll that resolves with f applied to a default value when the wrapped
\* future is pending
MapFuturePollPendingAsReady(this, cx, r) ==
    LET fut2 == InnerPoll(this.fut, cx, r)
    IN CASE r.t \in {"Ok", "Pending"} ->
              [this |-> [f |-> FnAfter(this.f), fut |-> fut2],
               out |-> Ok(FnApply(this.f, IF r.t = "Ok" THEN r.v ELSE 0)),
               ev |-> <<"fut.poll", "f", "return">>]
         [] OTHER ->
              [this |-> [f |-> this.f, fut |-> fut2],
               out |-> r,
               ev |-> <<"fut.poll", IF r.t = "Panic" THEN "unwind" ELSE "return">>]

\* A poll that polls the wrapped future with a context of its own
MapFuturePollOwnCx(this, cx, r) ==
    LET fut2 == InnerPoll(this.fut, "noop", r)
    IN CASE r.t = "Ok" ->
              [this |-> [f |-> FnAfter(this.f), fut |-> fut2],
               out |-> Ok(FnApply(this.f, r.v)),
               ev |-> <<"fut.poll", "f", "return">>]
         [] OTHER ->
              [this |-> [f |-> this.f, fut |-> fut2],
               out |-> r,
               ev |-> <<"fut.poll", IF r.t = "Panic" THEN "unwind" ELSE "return">>]

\* A poll that remembers it has resolved and no longer polls the wrapped
\* future afterwards
MapFuturePollFused(this, cx, r) ==
    IF this.fut.readys > 0
    THEN [this |-> this, out |-> Pending, ev |-> <<"return">>]
    ELSE LET fut2 == InnerPoll(this.fut, cx, r)
         IN CASE r.t = "Ok" ->
                   [this |-> [f |-> FnAfter(this.f), fut |-> fut2],
                    out |-> Ok(FnApply(this.f, r.v)),
                    ev |-> <<"fut.poll", "f", "return">>]
              [] OTHER ->
                   [this |-> [f |-> this.f, fut |-> fut2],
                    out |-> r,
                    ev |-> <<"fut.poll", IF r.t = "Panic" THEN "unwind" ELSE "return">>]

\* A poll that invokes f twice on success
MapFuturePollTwice(this, cx, r) ==
    LET fut2 == InnerPoll(this.fut, cx, r)
    IN CASE r.t = "Ok" ->
              [this |-> [f |-> FnAfter(FnAfter(this.f)), fut |-> fut2],
               out |-> Ok(FnApply(this.f, r.v)),
               ev |-> <<"fut.poll", "f", "f", "return">>]
         [] OTHER ->
              [this |-> [f |-> this.f, fut |-> fut2],
               out |-> r,
               ev |-> <<"fut.poll", IF r.t = "Panic" THEN "unwind" ELSE "return">>]

\* fn poll(self: Pin<&mut Self>, cx): r is what this.fut.poll(cx) returns
\* (the step "fut.poll" passes the caller's cx on to the wrapped future)
MapFuturePoll(this, cx, r) ==
    LET fut2 == InnerPoll(this.fut, cx, r)
    IN CASE r.t = "Ok" ->
              [this |-> [f |-> FnAfter(this.f), fut |-> fut2],
               out |-> Ok(FnApply(this.f, r.v)),
               ev |-> <<"fut.poll", "f", "return">>]
         [] r.t = "Err" ->
              [this |-> [f |-> this.f, fut |-> fut2],
               out |-> Err(r.e),
               ev |-> <<"fut.poll", "return">>]
         [] r.t = "Pending" ->
              [this |-> [f |-> this.f, fut |-> fut2],
               out |-> Pending,
               ev |-> <<"fut.poll", "return">>]
         [] r.t = "Panic" ->
              [this |-> [f |-> this.f, fut |-> fut2],
               out |-> Panic,
               ev |-> <<"fut.poll", "unwind">>]

\* A drop that leaks the wrapped future
MapFutureDropLeak(this) == this

\* drop glue of MapFuture: the fields f and fut are dropped with it
MapFutureDrop(this) == [f |-> this.f, fut |-> InnerDrop(this.fut)]

----------------------------------------------------------------------------
\* The wrapped factory A: ServiceFactory<Req> and its future (external)

NewFactory == [news |-> 0]

FactoryClone(a) == a

CtorNew(cfg) ==
    [cfg |-> cfg, polls |-> 0, readys |-> 0, oks |-> 0, released |-> 0, waker |-> None]

FactoryNewService(a, cfg) == [a |-> [a EXCEPT !.news = @ + 1], fut |-> CtorNew(cfg)]

Services == {NewSvc(id) : id \in SvcIds}

----------------------------------------------------------------------------
\* MapServiceFactory

MapServiceFactoryNew(a, f) == [a |-> a, f |-> f]

MapServiceFactoryClone(self) == [a |-> FactoryClone(self.a), f |-> FnClone(self.f)]

MapServiceFutureNew(fut, f) == [fut |-> fut, f |-> Some(f)]

\* A new_service that invokes the factory's function while seeding the future
MapServiceFactoryNewServiceUsesFn(self, cfg) ==
    LET c == FactoryNewService(self.a, cfg)
    IN [self |-> [self EXCEPT !.a = c.a, !.f = FnAfter(@)],
        out |-> MapServiceFutureNew(c.fut, FnClone(self.f)),
        ev |-> <<"a.new_service", "f", "f.clone", "return">>]

\* fn new_service(&self, cfg)
MapServiceFactoryNewService(self, cfg) ==
    LET c == FactoryNewService(self.a, cfg)
    IN [self |-> [self EXCEPT !.a = c.a],
        out |-> MapServiceFutureNew(c.fut, FnClone(self.f)),
        ev |-> <<"a.new_service", "f.clone", "return">>]

\* A poll that loses the state of the function when it builds the Map
MapServiceFuturePollFreshFn(this, cx, r) ==
    LET fut2 == InnerPoll(this.fut, cx, r)
    IN CASE r.t = "Ok" /\ this.f.t = "Some" ->
              [this |-> [fut |-> fut2, f |-> None],
               out |-> Ok(MapNew(r.v, [this.f.x EXCEPT !.n = 0])),
               ev |-> <<"fut.poll", "f.take", "Map::new", "return">>]
         [] r.t = "Ok" /\ this.f.t = "None" ->
              [this |-> [fut |-> fut2, f |-> None],
               out |-> Panic,
               ev |-> <<"fut.poll", "f.take", "unwind">>]
         [] OTHER ->
              [this |-> [fut |-> fut2, f |-> this.f],
               out |-> r,
               ev |-> <<"fut.poll", IF r.t = "Panic" THEN "unwind" ELSE "return">>]

\* A poll that treats a construction error as not yet ready
MapServiceFuturePollSwallowErr(this, cx, r) ==
    LET fut2 == InnerPoll(this.fut, cx, r)
    IN CASE r.t = "Ok" /\ this.f.t = "Some" ->
              [this |-> [fut |-> fut2, f |-> None],
               out |-> Ok(MapNew(r.v, this.f.x)),
               ev |-> <<"fut.poll", "f.take", "Map::new", "return">>]
         [] r.t = "Ok" /\ this.f.t = "None" ->
              [this |-> [fut |-> fut2, f |-> None],
               out |-> Panic,
               ev |-> <<"fut.poll", "f.take", "unwind">>]
         [] r.t = "Panic" ->
              [this |-> [fut |-> fut2, f |-> this.f],
               out |-> Panic,
               ev |-> <<"fut.poll", "unwind">>]
         [] OTHER ->
              [this |-> [fut |-> fut2, f |-> this.f],
               out |-> Pending,
               ev |-> <<"fut.poll", "return">>]

\* A poll that empties the slot before it looks at the wrapped result
MapServiceFuturePollTakeFirst(this, cx, r) ==
    LET fut2 == InnerPoll(this.fut, cx, r)
    IN CASE r.t = "Err" ->
              [this |-> [fut |-> fut2, f |-> this.f],
               out |-> Err(r.e),
               ev |-> <<"fut.poll", "return">>]
         [] r.t = "Ok" /\ this.f.t = "Some" ->
              [this |-> [fut |-> fut2, f |-> None],
               out |-> Ok(MapNew(r.v, this.f.x)),
               ev |-> <<"fut.poll", "f.take", "Map::new", "return">>]
         [] r.t = "Ok" /\ this.f.t = "None" ->
              [this |-> [fut |-> fut2, f |-> None],
               out |-> Panic,
               ev |-> <<"fut.poll", "f.take", "unwind">>]
         [] r.t = "Pending" ->
              [this |-> [fut |-> fut2, f |-> None],
               out |-> Pending,
               ev |-> <<"f.take", "fut.poll", "return">>]
         [] r.t = "Panic" ->
              [this |-> [fut |-> fut2, f |-> this.f],
               out |-> Panic,
               ev |-> <<"fut.poll", "unwind">>]

\* A poll that copies the function out of the slot and leaves it there
MapServiceFuturePollNoTake(this, cx, r) ==
    LET fut2 == InnerPoll(this.fut, cx, r)
    IN CASE r.t = "Ok" /\ this.f.t = "Some" ->
              [this |-> [fut |-> fut2, f |-> this.f],
               out |-> Ok(MapNew(r.v, FnClone(this.f.x))),
               ev |-> <<"fut.poll", "f.clone", "Map::new", "return">>]
         [] r.t = "Ok" /\ this.f.t = "None" ->
              [this |-> [fut |-> fut2, f |-> None],
               out |-> Panic,
               ev |-> <<"fut.poll", "f.take", "unwind">>]
         [] OTHER ->
              [this |-> [fut |-> fut2, f |-> this.f],
               out |-> r,
               ev |-> <<"fut.poll", IF r.t = "Panic" THEN "unwind" ELSE "return">>]

\* A poll that empties the slot on the error path as well
MapServiceFuturePollTakeOnErr(this, cx, r) ==
    LET fut2 == InnerPoll(this.fut, cx, r)
    IN CASE r.t = "Err" ->
              [this |-> [fut |-> fut2, f |-> None],
               out |-> Err(r.e),
               ev |-> <<"fut.poll", "f.take", "return">>]
         [] r.t = "Ok" /\ this.f.t = "Some" ->
              [this |-> [fut |-> fut2, f |-> None],
               out |-> Ok(MapNew(r.v, this.f.x)),
               ev |-> <<"fut.poll", "f.take", "Map::new", "return">>]
         [] r.t = "Ok" /\ this.f.t = "None" ->
              [this |-> [fut |-> fut2, f |-> None],
               out |-> Panic,
               ev |-> <<"fut.poll", "f.take", "unwind">>]
         [] OTHER ->
              [this |-> [fut |-> fut2, f |-> this.f],
               out |-> r,
               ev |-> <<"fut.poll", IF r.t = "Panic" THEN "unwind" ELSE "return">>]

\* A poll that reports Pending instead of panicking on an empty slot
MapServiceFuturePollRecover(this, cx, r) ==
    LET fut2 == InnerPoll(this.fut, cx, r)
    IN CASE r.t = "Ok" /\ this.f.t = "Some" ->
              [this |-> [fut |-> fut2, f |-> None],
               out |-> Ok(MapNew(r.v, this.f.x)),
               ev |-> <<"fut.poll", "f.take", "Map::new", "return">>]
         [] r.t = "Ok" /\ this.f.t = "None" ->
              [this |-> [fut |-> fut2, f |-> None],
               out |-> Pending,
               ev |-> <<"fut.poll", "f.take", "return">>]
         [] OTHER ->
              [this |-> [fut |-> fut2, f |-> this.f],
               out |-> r,
               ev |-> <<"fut.poll", IF r.t = "Panic" THEN "unwind" ELSE "return">>]

\* fn poll(self: Pin<&mut Self>, cx): r is what this.fut.poll(cx) returns.
\* `?` returns the error at once; on Ready(svc) the slot is taken and
\* unwrapped, which panics when the slot is already empty.
MapServiceFuturePoll(this, cx, r) ==
    LET fut2 == InnerPoll(this.fut, cx, r)
    IN CASE r.t = "Err" ->
              [this |-> [fut |-> fut2, f |-> this.f],
               out |-> Err(r.e),
               ev |-> <<"fut.poll", "return">>]
         [] r.t = "Ok" /\ this.f.t = "Some" ->
              [this |-> [fut |-> fut2, f |-> None],
               out |-> Ok(MapNew(r.v, this.f.x)),
               ev |-> <<"fut.poll", "f.take", "Map::new", "return">>]
         [] r.t = "Ok" /\ this.f.t = "None" ->
              [this |-> [fut |-> fut2, f |-> None],
               out |-> Panic,
               ev |-> <<"fut.poll", "f.take", "unwind">>]
         [] r.t = "Pending" ->
              [this |-> [fut |-> fut2, f |-> this.f],
               out |-> Pending,
               ev |-> <<"fut.poll", "return">>]
         [] r.t = "Panic" ->
              [this |-> [fut |-> fut2, f |-> this.f],
               out |-> Panic,
               ev |-> <<"fut.poll", "unwind">>]

\* drop glue of MapServiceFuture: the fields fut and f are dropped with it
MapServiceFutureDrop(this) == [fut |-> InnerDrop(this.fut), f |-> this.f]

----------------------------------------------------------------------------
\* State: tables of the live objects.  A slot with status "none" is unused.
\*   first  the first Ready value the adapter returned to its caller
\*   nready the number of Ready values it returned
\*   f0     the function the adapter was created with
\*   origin the Map / factory it was created from
\*   late   the number of polls made after it first returned Ready
\*   atdrop the number of polls of the wrapped future when it was dropped

NoObj == [status |-> "none"]

Functions == {[kind |-> "const", n |-> 0], [kind |-> "succ", n |-> 0], [kind |-> "counting", n |-> 1]}

Free(tab, ids) == {i \in ids : tab[i].status = "none"}

NextFree(tab, ids) == CHOOSE i \in Free(tab, ids) : \A j \in Free(tab, ids) : i <= j

\* The last operation: its target, the slot it filled, the target's state
\* before it, what the wrapped object returned, what it returned, its steps
Op(op, id, new, pre, inner, out, ev) ==
    [op |-> op, id |-> id, new |-> new, pre |-> pre, inner |-> inner, out |-> out, ev |-> ev]

\* A poll: as Op, with the context the caller passed
PollOp(op, id, cx, pre, inner, out, ev) ==
    [op |-> op, id |-> id, new |-> 0, cx |-> cx, pre |-> pre, inner |-> inner,
     out |-> out, ev |-> ev]

Init ==
    /\ \E f \in Functions :
          maps = [m \in MapIds |->
                    IF m = 1 THEN [status |-> "live", map |-> MapNew(NewSvc(0), f)]
                    ELSE NoObj]
    /\ facs = [k \in FacIds |-> NoObj]
    /\ futs = [i \in FutIds |-> NoObj]
    /\ sfuts = [j \in SFutIds |-> NoObj]
    /\ last = Op("init", 0, 0, None, None, None, <<>>)

\* One function given to a Map and to a factory
InitMap ==
    /\ \E f \in Functions :
          /\ maps = [m \in MapIds |->
                       IF m = 1 THEN [status |-> "live", map |-> MapNew(NewSvc(0), f)]
                       ELSE NoObj]
          /\ facs = [k \in FacIds |->
                       IF k = 1 THEN [status |-> "live", fac |-> MapServiceFactoryNew(NewFactory, f)]
                       ELSE NoObj]
    /\ futs = [i \in FutIds |-> NoObj]
    /\ sfuts = [j \in SFutIds |-> NoObj]
    /\ last = Op("init", 0, 0, None, None, None, <<>>)

InitFactory ==
    /\ maps = [m \in MapIds |-> NoObj]
    /\ \E f \in Functions :
          facs = [k \in FacIds |->
                    IF k = 1 THEN [status |-> "live", fac |-> MapServiceFactoryNew(NewFactory, f)]
                    ELSE NoObj]
    /\ futs = [i \in FutIds |-> NoObj]
    /\ sfuts = [j \in SFutIds |-> NoObj]
    /\ last = Op("init", 0, 0, None, None, None, <<>>)

PollReady(m) ==
    /\ maps[m].status = "live"
    /\ maps[m].map.service.ready < MaxReadyPolls
    /\ \E r \in ReadyOutcomes :
          LET res == MapPollReady(maps[m].map, r)
          IN /\ maps' = [maps EXCEPT ![m].map = res.self]
             /\ last' = Op("poll_ready", m, 0, maps[m].map, r, res.out, res.ev)
    /\ UNCHANGED <<futs, facs, sfuts>>

Call(m, slots, reqs) ==
    /\ maps[m].status = "live"
    /\ Free(futs, slots) # {}
    /\ \E req \in reqs :
          LET res == MapCall(maps[m].map, req)
              i == NextFree(futs, slots)
          IN /\ maps' = [maps EXCEPT ![m].map = res.self]
             /\ futs' = [futs EXCEPT ![i] =
                           [status |-> "live", this |-> res.out, f0 |-> res.out.f,
                            origin |-> m, first |-> None, nready |-> 0,
                            late |-> 0, atdrop |-> None]]
             /\ last' = Op("call", m, i, maps[m].map, Ok(req), Ok(res.out), res.ev)
    /\ UNCHANGED <<facs, sfuts>>

CloneMap(m) ==
    /\ maps[m].status = "live"
    /\ Free(maps, MapIds) # {}
    /\ LET c == MapClone(maps[m].map)
           k == NextFree(maps, MapIds)
       IN /\ maps' = [maps EXCEPT ![k] = [status |-> "live", map |-> c]]
          /\ last' = Op("clone", m, k, maps[m].map, None, Ok(c), <<"service.clone", "f.clone", "return">>)
    /\ UNCHANGED <<futs, facs, sfuts>>

\* A poll of a MapFuture whose function is shared with the other
\* MapFutures instead of being a copy of its own
PollFutShared(i, ctxs) ==
    /\ futs[i].status = "live"
    /\ futs[i].this.fut.polls < MaxPolls
    /\ \E cx \in ctxs, r \in InnerOutcomes(futs[i].this.fut, Vals) :
          LET res == MapFuturePoll(futs[i].this, cx, r)
              mine == [futs EXCEPT
                         ![i].this = res.this,
                         ![i].status = IF res.out.t = "Panic" THEN "panicked" ELSE @,
                         ![i].first = IF @ = None /\ IsReady(res.out) THEN res.out ELSE @,
                         ![i].nready = IF IsReady(res.out) THEN @ + 1 ELSE @,
                         ![i].late = IF futs[i].nready > 0 THEN @ + 1 ELSE @]
          IN /\ futs' = [k \in FutIds |->
                           IF k # i /\ mine[k].status # "none"
                           THEN [mine[k] EXCEPT !.this.f = res.this.f]
                           ELSE mine[k]]
             /\ last' = PollOp("fut.poll", i, cx, futs[i].this, r, res.out, res.ev)
    /\ UNCHANGED <<maps, facs, sfuts>>

PollFut(i, ctxs) ==
    /\ futs[i].status = "live"
    /\ futs[i].this.fut.polls < MaxPolls
    /\ \E cx \in ctxs, r \in InnerOutcomes(futs[i].this.fut, Vals) :
          LET res == MapFuturePoll(futs[i].this, cx, r)
          IN /\ futs' = [futs EXCEPT
                           ![i].this = res.this,
                           ![i].status = IF res.out.t = "Panic" THEN "panicked" ELSE @,
                           ![i].first = IF @ = None /\ IsReady(res.out) THEN res.out ELSE @,
                           ![i].nready = IF IsReady(res.out) THEN @ + 1 ELSE @,
                           ![i].late = IF futs[i].nready > 0 THEN @ + 1 ELSE @]
             /\ last' = PollOp("fut.poll", i, cx, futs[i].this, r, res.out, res.ev)
    /\ UNCHANGED <<maps, facs, sfuts>>

DropFut(i) ==
    /\ futs[i].status \in {"live", "panicked"}
    /\ futs' = [futs EXCEPT ![i].this = MapFutureDrop(@), ![i].status = "dropped",
                           ![i].atdrop = Some(futs[i].this.fut.polls)]
    /\ last' = Op("fut.drop", i, 0, futs[i].this, None, None, <<"drop f", "drop fut">>)
    /\ UNCHANGED <<maps, facs, sfuts>>

NewService(k, slots, cfgs) ==
    /\ facs[k].status = "live"
    /\ Free(sfuts, slots) # {}
    /\ \E cfg \in cfgs :
          LET res == MapServiceFactoryNewService(facs[k].fac, cfg)
              j == NextFree(sfuts, slots)
          IN /\ facs' = [facs EXCEPT ![k].fac = res.self]
             /\ sfuts' = [sfuts EXCEPT ![j] =
                            [status |-> "live", this |-> res.out, f0 |-> res.out.f.x,
                             origin |-> k, first |-> None, nready |-> 0,
                             late |-> 0, atdrop |-> None, nmaps |-> 0, res |-> None]]
             /\ last' = Op("new_service", k, j, facs[k].fac, Ok(cfg), Ok(res.out), res.ev)
    /\ UNCHANGED <<maps, futs>>

CloneFactory(k) ==
    /\ facs[k].status = "live"
    /\ Free(facs, FacIds) # {}
    /\ LET c == MapServiceFactoryClone(facs[k].fac)
           n == NextFree(facs, FacIds)
       IN /\ facs' = [facs EXCEPT ![n] = [status |-> "live", fac |-> c]]
          /\ last' = Op("fac.clone", k, n, facs[k].fac, None, Ok(c), <<"a.clone", "f.clone", "return">>)
    /\ UNCHANGED <<maps, futs, sfuts>>

PollSFut(j, ctxs) ==
    /\ sfuts[j].status = "live"
    /\ sfuts[j].this.fut.polls < MaxPolls
    /\ \E cx \in ctxs, r \in InnerOutcomes(sfuts[j].this.fut, Services) :
          LET res == MapServiceFuturePoll(sfuts[j].this, cx, r)
          IN /\ sfuts' = [sfuts EXCEPT
                            ![j].this = res.this,
                            ![j].status = IF res.out.t = "Panic" THEN "panicked" ELSE @,
                            ![j].first = IF @ = None /\ IsReady(res.out) THEN res.out ELSE @,
                            ![j].nready = IF IsReady(res.out) THEN @ + 1 ELSE @,
                            ![j].late = IF sfuts[j].nready > 0 THEN @ + 1 ELSE @,
                            ![j].nmaps = IF res.out.t = "Ok" THEN @ + 1 ELSE @,
                            ![j].res = IF res.out.t = "Ok" THEN Some(res.out.v) ELSE @]
             /\ last' = PollOp("sfut.poll", j, cx, sfuts[j].this, r, res.out, res.ev)
    /\ UNCHANGED <<maps, futs, facs>>

DropSFut(j) ==
    /\ sfuts[j].status \in {"live", "panicked"}
    /\ sfuts' = [sfuts EXCEPT ![j].this = MapServiceFutureDrop(@), ![j].status = "dropped",
                             ![j].atdrop = Some(sfuts[j].this.fut.polls)]
    /\ last' = Op("sfut.drop", j, 0, sfuts[j].this, None, None, <<"drop fut", "drop f">>)
    /\ UNCHANGED <<maps, futs, facs>>

\* The caller keeps the Map the construction resolved to: `.await.unwrap()`
UseService(j) ==
    /\ sfuts[j].status # "none"
    /\ sfuts[j].res.t = "Some"
    /\ Free(maps, MapIds) # {}
    /\ LET k == NextFree(maps, MapIds)
       IN /\ maps' = [maps EXCEPT ![k] = [status |-> "live", map |-> sfuts[j].res.x]]
          /\ last' = Op("unwrap", j, k, None, None, None, <<>>)
    /\ sfuts' = [sfuts EXCEPT ![j].res = None]
    /\ UNCHANGED <<futs, facs>>

\* A task awaiting an adapter (`.await`): the executor polls it with the
\* task's context, first when the task starts and then each time the waker
\* the wrapped future holds wakes that task, until it returns Ready.  The
\* wrapped future becomes ready at the latest at its last poll.
TaskCx(kind) == IF kind = "fut" THEN "cx1" ELSE "cx2"

Woken(fut, cx) == fut.polls = 0 \/ fut.waker = Some(cx)

RunFut(i) ==
    /\ futs[i].status = "live"
    /\ futs[i].nready = 0
    /\ Woken(futs[i].this.fut, TaskCx("fut"))
    /\ PollFut(i, {TaskCx("fut")})
    /\ futs[i].this.fut.polls = MaxPolls - 1 => last'.inner # Pending

RunSFut(j) ==
    /\ sfuts[j].status = "live"
    /\ sfuts[j].nready = 0
    /\ Woken(sfuts[j].this.fut, TaskCx("sfut"))
    /\ PollSFut(j, {TaskCx("sfut")})
    /\ sfuts[j].this.fut.polls = MaxPolls - 1 => last'.inner # Pending

\* Calls in flight at once on one Map
Next ==
    \/ \E m \in MapIds : Call(m, FutIds, Reqs)
    \/ \E i \in FutIds : PollFut(i, {"cx1"})
    \/ \E i \in FutIds : DropFut(i)

Spec == Init /\ [][Next]_vars

\* A Map, a factory and their clones: readiness, calls, one call in flight,
\* construction requests
NextMap ==
    \/ \E m \in MapIds : PollReady(m)
    \/ \E m \in MapIds : Call(m, {1}, {"r1"})
    \/ \E m \in MapIds : CloneMap(m)
    \/ \E i \in FutIds : PollFut(i, {"cx1"})
    \/ \E i \in FutIds : DropFut(i)
    \/ \E k \in FacIds : NewService(k, {1}, {"c1"})
    \/ \E k \in FacIds : CloneFactory(k)

SpecMap == InitMap /\ [][NextMap]_vars

\* A factory and its clones: construction, then calls on the constructed Map
NextFactory ==
    \/ \E k \in FacIds : NewService(k, {1}, Cfgs)
    \/ \E k \in FacIds : CloneFactory(k)
    \/ \E j \in SFutIds : PollSFut(j, {"cx1"})
    \/ \E j \in SFutIds : DropSFut(j)
    \/ \E j \in SFutIds : UseService(j)
    \/ \E m \in MapIds : Call(m, {1}, Reqs)
    \/ \E i \in FutIds : PollFut(i, {"cx1"})
    \/ \E i \in FutIds : DropFut(i)

SpecFactory == InitFactory /\ [][NextFactory]_vars

\* Awaited adapters: a call and a construction, each driven by its task
NextLive ==
    \/ \E m \in MapIds : Call(m, {1}, Reqs)
    \/ \E k \in FacIds : NewService(k, {1}, Cfgs)
    \/ \E i \in FutIds : RunFut(i)
    \/ \E j \in SFutIds : RunSFut(j)

SpecLive ==
    /\ InitMap
    /\ [][NextLive]_vars
    /\ \A i \in FutIds : WF_vars(RunFut(i))
    /\ \A j \in SFutIds : WF_vars(RunSFut(j))

\* Several awaited constructions from one factory and its clones
NextSeed ==
    \/ \E k \in FacIds : NewService(k, SFutIds, Cfgs)
    \/ \E k \in FacIds : CloneFactory(k)
    \/ \E j \in SFutIds : RunSFut(j)
    \/ \E j \in SFutIds : UseService(j)

SpecSeed == InitFactory /\ [][NextSeed]_vars

----------------------------------------------------------------------------
\* Properties

Has(ev, x) == \E k \in 1..Len(ev) : ev[k] = x

Exists(x) == x.status # "none"

\* The number of times an adapter has invoked its copy of f
Calls(x) == x.this.f.n - x.f0.n

\* C1: in a poll of a MapFuture in which the wrapped future returns Ok(v),
\* the MapFuture returns Ok(f(v)), f being applied to that v; if it is its
\* first Ready value, that is what the call resolved to.
C1_SuccessTransformation ==
    (last.op = "fut.poll" /\ last.inner.t = "Ok") =>
        /\ last.out = Ok(FnApply(last.pre.f, last.inner.v))
        /\ (futs[last.id].nready = 1 => futs[last.id].first = last.out)

C1_Witness ==
    /\ last.op = "fut.poll"
    /\ last.inner = Ok(1)
    /\ last.pre.f = [kind |-> "counting", n |-> 1]
    /\ last.out = Ok(21)
    /\ futs[last.id].first = Ok(21)

\* C2: in a poll of a MapFuture in which the wrapped future returns Err(e),
\* the MapFuture returns the same Err(e) and f is not invoked; a call whose
\* resolution is Err has not invoked f at any point.
C2_ErrorPassThrough ==
    /\ (last.op = "fut.poll" /\ last.inner.t = "Err") =>
          /\ last.out = last.inner
          /\ futs[last.id].this.f = last.pre.f
          /\ ~Has(last.ev, "f")
    /\ \A i \in FutIds :
          (Exists(futs[i]) /\ futs[i].first.t = "Err" /\ futs[i].late = 0) =>
              /\ Calls(futs[i]) = 0
              /\ futs[i].this.f = futs[i].f0

C2_Witness ==
    /\ last.op = "fut.poll"
    /\ last.inner = Err(2)
    /\ last.out = Err(2)
    /\ futs[last.id].this.fut.polls = 2
    /\ futs[last.id].first = Err(2)
    /\ futs[last.id].late = 0

\* C3 as stated: over any sequence of polls of one MapFuture f is invoked
\* exactly once if the call completes with success.
C3_Original ==
    \A i \in FutIds :
        (Exists(futs[i]) /\ futs[i].first.t = "Ok") => Calls(futs[i]) = 1

\* C3 amended: over the polls of one MapFuture up to and including the one
\* that returns its terminal Ready, f is invoked exactly once if the call
\* completes with success and not at all otherwise; over any sequence of polls
\* f is invoked only in a poll in which the wrapped future returns Ready(Ok),
\* once in each such poll.
C3_SingleApplication ==
    /\ \A i \in FutIds :
          Exists(futs[i]) =>
              /\ futs[i].late = 0 =>
                    Calls(futs[i]) = IF futs[i].first.t = "Ok" THEN 1 ELSE 0
              /\ Calls(futs[i]) = futs[i].this.fut.oks
    /\ last.op = "fut.poll" =>
          /\ Has(last.ev, "f") <=> last.inner.t = "Ok"
          /\ futs[last.id].this.f # last.pre.f <=> last.inner.t = "Ok"

C3_Witness ==
    \E i \in FutIds :
        /\ Exists(futs[i])
        /\ futs[i].this.fut.polls = 2
        /\ futs[i].nready = 1
        /\ futs[i].first.t = "Ok"
        /\ futs[i].late = 0
        /\ Calls(futs[i]) = 1

\* C4: Map::poll_ready returns exactly what the wrapped service's poll_ready
\* returned, polls the wrapped service's readiness once, and neither invokes
\* f nor calls the wrapped service.
C4_ReadinessPassThrough ==
    last.op = "poll_ready" =>
        /\ last.out = last.inner
        /\ last.ev = <<"service.poll_ready", "return">>
        /\ maps[last.id].map.service.ready = last.pre.service.ready + 1
        /\ maps[last.id].map.service.calls = last.pre.service.calls
        /\ maps[last.id].map.f = last.pre.f

C4_Witness ==
    /\ last.op = "poll_ready"
    /\ last.inner = Err(2)
    /\ last.out = Err(2)
    /\ maps[last.id].map.service.ready = 1

\* C5: in the poll of a MapServiceFuture in which the wrapped construction
\* future resolves to Ok(s), the MapServiceFuture resolves to Ok(Map(s, f)),
\* f being the factory's function; the calls made later on that Map return
\* Ok(f(v)) for Ok(v) and Err(e) unchanged.
C5_ConstructionPropagation ==
    /\ (/\ last.op = "sfut.poll"
        /\ last.inner.t = "Ok"
        /\ sfuts[last.id].this.fut.readys = 1) =>
          /\ last.out = Ok(MapNew(last.inner.v, sfuts[last.id].f0))
          /\ sfuts[last.id].first = last.out
          /\ sfuts[last.id].f0 = facs[sfuts[last.id].origin].fac.f
    /\ last.op = "unwrap" =>
          /\ sfuts[last.id].nmaps = 1
          /\ maps[last.new].map.f = sfuts[last.id].f0
          /\ maps[last.new].map.service \in Services
    /\ (last.op = "fut.poll" /\ last.inner.t = "Ok") =>
          /\ futs[last.id].f0 = sfuts[1].f0
          /\ last.out = Ok(FnApply(last.pre.f, last.inner.v))
    /\ (last.op = "fut.poll" /\ last.inner.t = "Err") =>
          /\ last.out = last.inner
          /\ futs[last.id].this.f = last.pre.f

C5_Witness ==
    /\ last.op = "fut.poll"
    /\ last.inner = Ok(1)
    /\ last.out = Ok(21)
    /\ maps[futs[last.id].origin].map.service.id = 2
    /\ sfuts[1].first.t = "Ok"
    /\ sfuts[1].first.v.service = NewSvc(2)

\* C6: in the poll of a MapServiceFuture in which the wrapped construction
\* future returns Err(e), the MapServiceFuture returns the same Err(e); no
\* Map is produced and f is not invoked (a MapServiceFuture never invokes f).
C6_ConstructionFailure ==
    /\ (last.op = "sfut.poll" /\ last.inner.t = "Err") =>
          /\ last.out = last.inner
          /\ ~Has(last.ev, "Map::new")
          /\ sfuts[last.id].nready = 1 =>
                /\ sfuts[last.id].first = last.inner
                /\ sfuts[last.id].nmaps = 0
                /\ \A m \in MapIds : ~Exists(maps[m])
    /\ \A j \in SFutIds :
          Exists(sfuts[j]) =>
              /\ sfuts[j].this.f \in {None, Some(sfuts[j].f0)}
              /\ sfuts[j].first.t = "Err" /\ sfuts[j].late = 0 => sfuts[j].nmaps = 0

C6_Witness ==
    /\ last.op = "sfut.poll"
    /\ last.inner = Err(2)
    /\ last.out = Err(2)
    /\ sfuts[last.id].this.fut.polls = 2
    /\ sfuts[last.id].nready = 1
    /\ sfuts[last.id].first = Err(2)

\* C7 as stated: a poll of a MapFuture or MapServiceFuture made after it
\* returned its terminal Ready value panics.
C7_Original ==
    /\ (last.op = "fut.poll" /\ futs[last.id].late > 0) => last.out = Panic
    /\ (last.op = "sfut.poll" /\ sfuts[last.id].late > 0) => last.out = Panic

\* C7 amended: a poll made after the terminal Ready value is forwarded to
\* the wrapped future and handled like any other poll; it panics only if
\* the wrapped future panics or, for a MapServiceFuture, if the wrapped
\* future returns Ok while the slot is empty.  The function is never
\* extracted from the slot a second time.
C7_UseAfterResolve ==
    /\ (last.op = "fut.poll" /\ futs[last.id].late > 0) =>
          /\ last.out.t = "Panic" <=> last.inner.t = "Panic"
          /\ last.inner.t \in {"Pending", "Err"} => last.out = last.inner
          /\ last.inner.t = "Ok" => last.out = Ok(FnApply(last.pre.f, last.inner.v))
    /\ (last.op = "sfut.poll" /\ sfuts[last.id].late > 0) =>
          /\ last.out.t = "Panic" <=>
                \/ last.inner.t = "Panic"
                \/ last.inner.t = "Ok" /\ last.pre.f = None
          /\ last.inner.t \in {"Pending", "Err"} => last.out = last.inner
          /\ (last.inner.t = "Ok" /\ last.pre.f # None) =>
                last.out = Ok(MapNew(last.inner.v, last.pre.f.x))
    /\ \A j \in SFutIds : Exists(sfuts[j]) => sfuts[j].nmaps <= 1

C7_Witness ==
    /\ last.op = "sfut.poll"
    /\ sfuts[last.id].late > 0
    /\ sfuts[last.id].first.t = "Ok"
    /\ last.inner.t = "Ok"
    /\ last.pre.f = None
    /\ last.out = Panic

\* C8: within a poll of a MapFuture f is invoked after the poll of the
\* wrapped future that returned Ok and before the poll returns; f is never
\* invoked in a poll in which the wrapped future is pending, and an adapter
\* has never invoked f more often than its wrapped future has returned Ok.
C8_Ordering ==
    /\ last.op = "fut.poll" =>
          /\ last.ev[1] = "fut.poll"
          /\ last.inner.t = "Ok" => last.ev = <<"fut.poll", "f", "return">>
          /\ Has(last.ev, "f") => last.inner.t = "Ok"
          /\ last.inner.t = "Pending" =>
                /\ last.out = Pending
                /\ futs[last.id].this.f = last.pre.f
    /\ \A i \in FutIds :
          Exists(futs[i]) => Calls(futs[i]) <= futs[i].this.fut.oks

C8_Witness ==
    /\ last.op = "fut.poll"
    /\ last.ev = <<"fut.poll", "f", "return">>
    /\ futs[last.id].this.fut.polls = 2
    /\ futs[last.id].nready = 1
    /\ Calls(futs[last.id]) = 1

\* C9: a dropped MapFuture or MapServiceFuture has released the wrapped
\* future it owns exactly once and that future has not been polled since;
\* an adapter not dropped has not released it.  Dropped before it resolved,
\* a MapFuture has not invoked f and a MapServiceFuture has produced no Map.
C9_Cancellation ==
    /\ \A i \in FutIds :
          Exists(futs[i]) =>
              /\ futs[i].this.fut.released = IF futs[i].status = "dropped" THEN 1 ELSE 0
              /\ futs[i].status = "dropped" =>
                    /\ futs[i].atdrop = Some(futs[i].this.fut.polls)
                    /\ futs[i].first = None => Calls(futs[i]) = 0
    /\ \A j \in SFutIds :
          Exists(sfuts[j]) =>
              /\ sfuts[j].this.fut.released = IF sfuts[j].status = "dropped" THEN 1 ELSE 0
              /\ sfuts[j].status = "dropped" =>
                    /\ sfuts[j].atdrop = Some(sfuts[j].this.fut.polls)
                    /\ sfuts[j].first = None =>
                          /\ sfuts[j].nmaps = 0
                          /\ sfuts[j].this.f = Some(sfuts[j].f0)
                          /\ \A m \in MapIds : ~Exists(maps[m])
    /\ last.op = "fut.drop" =>
          futs[last.id].this = [last.pre EXCEPT !.fut.released = 1]
    /\ last.op = "sfut.drop" =>
          sfuts[last.id].this = [last.pre EXCEPT !.fut.released = 1]

C9_Witness ==
    /\ last.op = "fut.drop"
    /\ futs[last.id].first = None
    /\ futs[last.id].this.fut.polls = 1
    /\ futs[last.id].this.fut.released = 1
    /\ sfuts[1].status = "dropped"
    /\ sfuts[1].this.fut.released = 1

\* C10: a clone of a Map (of a MapServiceFactory) holds copies of the
\* wrapped service (factory) and of the function as they are at the clone;
\* cloning invokes no operation of the wrapped service or factory and does
\* not invoke f; and no step other than an operation on a Map (factory)
\* itself changes that Map (factory): operations on a clone, or on the
\* futures it returned, leave the original unchanged, and vice versa.
C10_Duplication ==
    [][/\ last'.op = "clone" =>
             /\ maps'[last'.new].map = maps[last'.id].map
             /\ last'.ev = <<"service.clone", "f.clone", "return">>
             /\ \A m \in MapIds \ {last'.new} : maps'[m] = maps[m]
             /\ UNCHANGED <<futs, facs, sfuts>>
       /\ last'.op = "fac.clone" =>
             /\ facs'[last'.new].fac = facs[last'.id].fac
             /\ last'.ev = <<"a.clone", "f.clone", "return">>
             /\ \A k \in FacIds \ {last'.new} : facs'[k] = facs[k]
             /\ UNCHANGED <<maps, futs, sfuts>>
       /\ \A m \in MapIds :
             (Exists(maps[m]) /\ ~(last'.op \in {"poll_ready", "call"} /\ last'.id = m))
                 => maps'[m] = maps[m]
       /\ \A k \in FacIds :
             (Exists(facs[k]) /\ ~(last'.op = "new_service" /\ last'.id = k))
                 => facs'[k] = facs[k]
      ]_vars

C10_Witness ==
    /\ Exists(maps[2])
    /\ maps[1].map.f = maps[2].map.f
    /\ maps[1].map.f.n = 1
    /\ maps[1].map.service.ready = 1
    /\ maps[2].map.service.ready = 0
    /\ maps[1].map.service.calls = 0
    /\ maps[2].map.service.calls = 1
    /\ Exists(futs[1])
    /\ futs[1].origin = 2
    /\ Calls(futs[1]) = 1
    /\ Exists(facs[2])
    /\ facs[1].fac.a.news = 0
    /\ facs[2].fac.a.news = 1

\* C11: Map::call invokes the wrapped service's call once with the request
\* it was given, polls nothing and does not invoke f; the MapFuture it
\* returns holds the wrapped future, not yet polled, and a copy of the
\* Map's f, and has returned nothing.  The wrapped service is called once
\* per MapFuture: a MapFuture never issues the call again.
C11_LazyCall ==
    /\ last.op = "call" =>
          /\ last.ev = <<"service.call", "f.clone", "return">>
          /\ maps[last.id].map.service.calls = last.pre.service.calls + 1
          /\ maps[last.id].map.service.ready = last.pre.service.ready
          /\ maps[last.id].map.f = last.pre.f
          /\ last.out.v.f = last.pre.f
          /\ last.out.v.fut =
                [req |-> last.inner.v, polls |-> 0, readys |-> 0, oks |-> 0,
                 released |-> 0, waker |-> None]
          /\ futs[last.new].this = last.out.v
          /\ futs[last.new].status = "live"
          /\ futs[last.new].first = None
          /\ futs[last.new].nready = 0
    /\ \A m \in MapIds :
          Exists(maps[m]) =>
              maps[m].map.service.calls =
                  Cardinality({i \in FutIds : Exists(futs[i]) /\ futs[i].origin = m})

C11_Witness ==
    /\ Exists(futs[1])
    /\ Exists(futs[2])
    /\ futs[1].this.fut.req = "r2"
    /\ futs[2].this.fut.req = "r1"
    /\ futs[1].this.fut.polls = 2
    /\ futs[1].nready = 2
    /\ futs[2].this.fut.polls = 0
    /\ maps[1].map.service.calls = 2

\* C12: a poll of a MapFuture in which the wrapped future is pending returns
\* Pending, does not invoke f, and leaves the adapter holding the same
\* function and the same wrapped future (polled once more); an adapter that
\* has returned no Ready value yet has not invoked f.
C12_PendingStep ==
    /\ (last.op = "fut.poll" /\ last.inner = Pending) =>
          /\ last.out = Pending
          /\ last.ev = <<"fut.poll", "return">>
          /\ futs[last.id].status = "live"
          /\ futs[last.id].this.f = last.pre.f
          /\ futs[last.id].this.fut =
                [last.pre.fut EXCEPT !.polls = @ + 1, !.waker = Some(last.cx)]
    /\ \A i \in FutIds :
          (Exists(futs[i]) /\ futs[i].nready = 0) =>
              /\ futs[i].this.f = futs[i].f0
              /\ futs[i].first = None
              /\ futs[i].this.fut.readys = 0

C12_Witness ==
    /\ last.op = "fut.poll"
    /\ last.inner = Pending
    /\ last.out = Pending
    /\ futs[last.id].this.fut.polls = 2
    /\ futs[last.id].nready = 0
    /\ futs[last.id].this.f = futs[last.id].f0

\* C13: a poll of a MapServiceFuture in which the wrapped construction
\* future is pending returns Pending and leaves the slot as it was; after
\* any number of polls that returned no Ready value the slot still holds
\* the function the adapter was created with.
C13_ConstructionPendingStep ==
    /\ (last.op = "sfut.poll" /\ last.inner = Pending) =>
          /\ last.out = Pending
          /\ last.ev = <<"fut.poll", "return">>
          /\ sfuts[last.id].status = "live"
          /\ sfuts[last.id].this.f = last.pre.f
          /\ sfuts[last.id].this.fut =
                [last.pre.fut EXCEPT !.polls = @ + 1, !.waker = Some(last.cx)]
    /\ \A j \in SFutIds :
          (Exists(sfuts[j]) /\ sfuts[j].nready = 0) =>
              /\ sfuts[j].this.f = Some(sfuts[j].f0)
              /\ sfuts[j].nmaps = 0

C13_Witness ==
    /\ last.op = "sfut.poll"
    /\ last.inner = Pending
    /\ last.out = Pending
    /\ sfuts[last.id].this.fut.polls = 2
    /\ sfuts[last.id].nready = 0
    /\ sfuts[last.id].this.f = Some(sfuts[last.id].f0)

\* C14: over any sequence of polls of one MapServiceFuture the function is
\* taken out of the slot at most once, and only in a poll in which the
\* wrapped construction future returned Ok; a poll in which it returns Ok
\* while the slot is empty panics and produces no Map.
C14_SingleUseSlot ==
    /\ \A j \in SFutIds :
          Exists(sfuts[j]) =>
              /\ sfuts[j].nmaps <= 1
              /\ sfuts[j].nmaps = 1 => sfuts[j].this.f = None
              /\ sfuts[j].nmaps <= sfuts[j].this.fut.oks
    /\ last.op = "sfut.poll" =>
          /\ Has(last.ev, "f.take") => last.inner.t = "Ok"
          /\ sfuts[last.id].this.f # last.pre.f =>
                /\ last.inner.t = "Ok"
                /\ last.pre.f = Some(sfuts[last.id].f0)
                /\ sfuts[last.id].this.f = None
                /\ last.out = Ok(MapNew(last.inner.v, sfuts[last.id].f0))
          /\ (last.inner.t = "Ok" /\ last.pre.f = None) =>
                /\ last.out = Panic
                /\ last.ev = <<"fut.poll", "f.take", "unwind">>
                /\ sfuts[last.id].status = "panicked"
                /\ sfuts[last.id].nmaps = 1

C14_Witness ==
    /\ last.op = "sfut.poll"
    /\ last.inner.t = "Ok"
    /\ last.pre.f = None
    /\ last.ev = <<"fut.poll", "f.take", "unwind">>
    /\ sfuts[last.id].status = "panicked"
    /\ sfuts[last.id].nmaps = 1
    /\ sfuts[last.id].this.fut.oks = 2

\* C15: a MapFuture or MapServiceFuture returns Pending only in a poll in
\* which it polled the wrapped future with the caller's context and the
\* wrapped future returned Pending, so that the wrapped future holds the
\* caller's waker; it returns Ready in the poll in which the wrapped future
\* first reports ready.  Hence an awaited adapter whose wrapped future
\* becomes ready eventually returns Ready.
C15_Polled ==
    /\ (last.op = "fut.poll" /\ last.out = Pending) =>
          /\ last.inner = Pending
          /\ last.ev[1] = "fut.poll"
          /\ futs[last.id].this.fut.polls = last.pre.fut.polls + 1
          /\ futs[last.id].this.fut.waker = Some(last.cx)
    /\ (last.op = "sfut.poll" /\ last.out = Pending) =>
          /\ last.inner = Pending
          /\ last.ev[1] = "fut.poll"
          /\ sfuts[last.id].this.fut.polls = last.pre.fut.polls + 1
          /\ sfuts[last.id].this.fut.waker = Some(last.cx)
    /\ (last.op \in {"fut.poll", "sfut.poll"} /\ IsReady(last.inner)
          /\ last.pre.fut.readys = 0) => IsReady(last.out)

C15_NoMissedWakeups ==
    /\ []C15_Polled
    /\ \A i \in FutIds :
          Exists(futs[i]) ~> (Exists(futs[i]) /\ futs[i].nready > 0)
    /\ \A j \in SFutIds :
          Exists(sfuts[j]) ~> (Exists(sfuts[j]) /\ sfuts[j].nready > 0)

C15_Witness ==
    /\ last.op = "fut.poll"
    /\ last.cx = "cx1"
    /\ IsReady(last.out)
    /\ futs[1].this.fut.polls = 2
    /\ futs[1].nready = 1
    /\ Exists(sfuts[1])
    /\ sfuts[1].this.fut.polls = 2
    /\ sfuts[1].nready = 1

\* C16: with several MapFutures of one Map in flight, under every
\* interleaving of their polls and drops, each resolves to its own copy of
\* f applied to its own wrapped result, or to its own error; a poll or drop
\* of one leaves every other unchanged, and what one has resolved to never
\* changes.
C16_Resolved ==
    (last.op = "fut.poll" /\ IsReady(last.out) /\ futs[last.id].nready = 1) =>
        /\ futs[last.id].first = last.out
        /\ last.out = IF last.inner.t = "Ok"
                      THEN Ok(FnApply(futs[last.id].f0, last.inner.v))
                      ELSE last.inner

C16_Independence ==
    /\ []C16_Resolved
    /\ [][\A i \in FutIds :
            Exists(futs[i]) =>
                /\ ~(last'.op \in {"fut.poll", "fut.drop"} /\ last'.id = i)
                      => futs'[i] = futs[i]
                /\ futs[i].first # None => futs'[i].first = futs[i].first
         ]_vars

C16_Witness ==
    /\ last.op = "fut.poll"
    /\ last.id = 1
    /\ Exists(futs[1])
    /\ Exists(futs[2])
    /\ futs[1].first = Ok(21)
    /\ futs[2].first = Ok(20)
    /\ futs[1].this.fut.polls = 2
    /\ futs[2].this.fut.polls = 2
    /\ futs[1].nready = 1
    /\ futs[2].status = "dropped"

\* C17: new_service invokes the wrapped factory's new_service once with the
\* config it was given, does not invoke f, and returns a MapServiceFuture
\* holding the wrapped construction future, not yet polled, and a slot with
\* a copy of the factory's function; the factory's function is unchanged,
\* so every MapServiceFuture and every Map constructed from a factory or
\* its clones carries the same function.
C17_LazyNewService ==
    /\ last.op = "new_service" =>
          /\ last.ev = <<"a.new_service", "f.clone", "return">>
          /\ facs[last.id].fac.a.news = last.pre.a.news + 1
          /\ facs[last.id].fac.f = last.pre.f
          /\ last.out.v.f = Some(last.pre.f)
          /\ last.out.v.fut =
                [cfg |-> last.inner.v, polls |-> 0, readys |-> 0, oks |-> 0,
                 released |-> 0, waker |-> None]
          /\ sfuts[last.new].this = last.out.v
          /\ sfuts[last.new].nready = 0
          /\ sfuts[last.new].nmaps = 0
    /\ \A j \in SFutIds :
          Exists(sfuts[j]) =>
              /\ sfuts[j].f0 = facs[sfuts[j].origin].fac.f
              /\ sfuts[j].res.t = "Some" => sfuts[j].res.x.f = facs[sfuts[j].origin].fac.f
    /\ \A k \in FacIds : Exists(facs[k]) => facs[k].fac.f = facs[1].fac.f
    /\ \A m \in MapIds : Exists(maps[m]) => maps[m].map.f = facs[1].fac.f

C17_Witness ==
    /\ Exists(sfuts[1])
    /\ Exists(sfuts[2])
    /\ sfuts[1].origin = 1
    /\ sfuts[2].origin = 1
    /\ sfuts[1].this.fut.cfg = "c1"
    /\ sfuts[2].this.fut.cfg = "c2"
    /\ facs[1].fac.a.news = 2
    /\ facs[1].fac.f = [kind |-> "counting", n |-> 1]
    /\ Exists(maps[1])
    /\ Exists(maps[2])
    /\ maps[1].map.f = maps[2].map.f
    /\ maps[1].map.service.id # maps[2].map.service.id

\* C18: the function stored in a Map is never invoked and never changes:
\* no operation on the Map or on its MapFutures changes it, every MapFuture
\* starts from a copy of it, and the first Ok a MapFuture resolves to is the
\* Map's stored function applied to the wrapped value, however many earlier
\* calls have completed.
C18_StoredFn ==
    /\ last.op \in {"call", "poll_ready"} =>
          /\ ~Has(last.ev, "f")
          /\ maps[last.id].map.f = last.pre.f
    /\ \A i \in FutIds :
          Exists(futs[i]) => futs[i].f0 = maps[futs[i].origin].map.f
    /\ (last.op = "fut.poll" /\ last.inner.t = "Ok" /\ futs[last.id].nready = 1) =>
          last.out = Ok(FnApply(maps[futs[last.id].origin].map.f, last.inner.v))

C18_MapFnUntouched ==
    /\ []C18_StoredFn
    /\ [][\A m \in MapIds :
            Exists(maps[m]) => maps'[m].map.f = maps[m].map.f]_vars

C18_Witness ==
    /\ last.op = "fut.poll"
    /\ last.id = 2
    /\ last.inner = Ok(1)
    /\ last.out = Ok(21)
    /\ futs[2].nready = 1
    /\ Exists(futs[1])
    /\ futs[1].first = Ok(21)
    /\ Calls(futs[1]) = 2
    /\ maps[1].map.f = [kind |-> "counting", n |-> 1]
    /\ maps[1].map.service.calls = 2

\* C19: a MapFuture keeps no record of having resolved: every poll polls
\* the wrapped future once, and over any sequence of polls f has been
\* invoked as many times as the wrapped future returned Ready(Ok) and the
\* caller has received as many Ready values as the wrapped future produced.
C19_NoResolvedState ==
    /\ last.op = "fut.poll" =>
          /\ last.ev[1] = "fut.poll"
          /\ futs[last.id].this.fut.polls = last.pre.fut.polls + 1
          /\ Has(last.ev, "f") <=> last.inner.t = "Ok"
          /\ IsReady(last.out) <=> IsReady(last.inner)
    /\ \A i \in FutIds :
          Exists(futs[i]) =>
              /\ Calls(futs[i]) = futs[i].this.fut.oks
              /\ futs[i].nready = futs[i].this.fut.readys
              /\ futs[i].late = 0 => futs[i].this.fut.readys <= 1

C19_Witness ==
    /\ last.op = "fut.poll"
    /\ last.pre.fut.readys = 1
    /\ last.pre.f = [kind |-> "counting", n |-> 2]
    /\ last.inner = Ok(0)
    /\ last.out = Ok(30)
    /\ futs[last.id].first = Ok(21)
    /\ futs[last.id].this.fut.oks = 2
    /\ futs[last.id].nready = 2
    /\ Calls(futs[last.id]) = 2

\* C20: a poll of a MapServiceFuture in which the wrapped construction
\* future returns Err returns that error without touching the slot, so the
\* slot holds after it what it held before; the slot of a MapServiceFuture
\* is empty if and only if the adapter has returned Ok(Map) once, and holds
\* the function it was created with otherwise.
C20_SlotAfterErr ==
    /\ (last.op = "sfut.poll" /\ last.inner.t = "Err") =>
          /\ last.out = last.inner
          /\ last.ev = <<"fut.poll", "return">>
          /\ sfuts[last.id].this.f = last.pre.f
    /\ \A j \in SFutIds :
          sfuts[j].status \in {"live", "panicked"} =>
              /\ sfuts[j].this.f = None <=> sfuts[j].nmaps = 1
              /\ sfuts[j].this.f # None => sfuts[j].this.f = Some(sfuts[j].f0)
              /\ sfuts[j].nmaps \in {0, 1}

C20_Witness ==
    /\ last.op = "sfut.poll"
    /\ sfuts[last.id].first.t = "Err"
    /\ last.pre.f = Some(sfuts[last.id].f0)
    /\ last.pre.fut.readys = 1
    /\ last.pre.fut.oks = 0
    /\ last.inner.t = "Ok"
    /\ last.out = Ok(MapNew(last.inner.v, sfuts[last.id].f0))
    /\ sfuts[last.id].this.f = None
    /\ sfuts[last.id].nmaps = 1

====
